---- MODULE Spec2Model ----
(***************************************************************************)
(* Model of db/apply_corrections.py (JSON Patch applier) and               *)
(* db/merge_lessons.py (lesson file merger).                               *)
(*                                                                         *)
(* Python strings are sequences of one-character strings, so that          *)
(* parse_path really splits and unescapes.  Python containers are objects  *)
(* of a heap addressed by identity, so that two places of the document     *)
(* can hold the very same list or dict, as they do in Python.              *)
(***************************************************************************)
EXTENDS Integers, Sequences, FiniteSets, TLC

(***************************************************************************)
(* Bounds of the model.                                                    *)
(***************************************************************************)
MaxObj == 4          \* containers alive in the heap at once
MaxLen == 3          \* longest list the model lets '-' grow
MaxPatches == 2      \* longest corrections list

(***************************************************************************)
(* Python values.                                                          *)
(***************************************************************************)
\* A value is an int or a reference to a list or dict of the heap; a path is
\* a str or None.  Every value is a record of the same two fields.
None == [t |-> "none", v |-> <<>>]
Str(s) == [t |-> "str", v |-> s]
PyInt(n) == [t |-> "int", v |-> n]
Ref(id) == [t |-> "ref", v |-> id]

\* Outcome of a call: a returned value or a raised exception.
Return(x) == [ok |-> TRUE, err |-> "", val |-> x]
Raise(e) == [ok |-> FALSE, err |-> e, val |-> None]

(***************************************************************************)
(* str methods used by parse_path.                                         *)
(***************************************************************************)
\* str.startswith(c) for a one-character prefix
startswith(s, c) == Len(s) >= 1 /\ s[1] = c

\* s[1:]
DropFirst(s) == SubSeq(s, 2, Len(s))

\* The position of the first sep in s
find(s, sep) == CHOOSE j \in 1..Len(s) : s[j] = sep /\ \A m \in 1..(j - 1) : s[m] # sep

\* str.split(sep) for a one-character separator: always at least one part
RECURSIVE split(_, _)
split(s, sep) ==
    IF \A k \in 1..Len(s) : s[k] # sep
    THEN <<s>>
    ELSE <<SubSeq(s, 1, find(s, sep) - 1)>>
             \o split(SubSeq(s, find(s, sep) + 1, Len(s)), sep)

\* str.replace(old, new) for a two-character old and a one-character new:
\* leftmost, non-overlapping occurrences
RECURSIVE replace(_, _, _)
replace(s, old, new) ==
    IF Len(s) < 2 THEN s
    ELSE IF s[1] = old[1] /\ s[2] = old[2]
         THEN <<new>> \o replace(SubSeq(s, 3, Len(s)), old, new)
         ELSE <<s[1]>> \o replace(Tail(s), old, new)

\* part.replace('~1', '/').replace('~0', '~')
unescape(part) == replace(replace(part, <<"~", "1">>, "/"), <<"~", "0">>, "~")

\* result = [unescape(part) for part in parts]
Unescaped(parts) == [k \in 1..Len(parts) |-> unescape(parts[k])]

\* parse_path: the list of unescaped tokens, or the exception raised.
\* A missing path is None, and None has no startswith.
parse_path(path) ==
    IF path.t = "none" THEN Raise("AttributeError")
    ELSE IF ~startswith(path.v, "/") THEN Raise("ValueError: Invalid path")
    ELSE LET parts == split(DropFirst(path.v), "/")
         IN  Return([k \in 1..Len(parts) |-> unescape(parts[k])])

(***************************************************************************)
(* int(part), over the characters of the model.                            *)
(***************************************************************************)
Digits == {"0", "1", "2"}
DigitVal(c) == CASE c = "0" -> 0 [] c = "1" -> 1 [] c = "2" -> 2

RECURSIVE Decimal(_)
Decimal(ds) ==
    IF ds = <<>> THEN 0
    ELSE 10 * Decimal(SubSeq(ds, 1, Len(ds) - 1)) + DigitVal(ds[Len(ds)])

IsDigits(ds) == ds # <<>> /\ \A k \in 1..Len(ds) : ds[k] \in Digits

\* int(s): an optional sign, then at least one digit; otherwise ValueError
int(s) ==
    IF ~IsDigits(IF startswith(s, "-") THEN Tail(s) ELSE s)
    THEN Raise("ValueError: invalid literal for int()")
    ELSE IF startswith(s, "-") THEN Return(0 - Decimal(Tail(s)))
    ELSE Return(Decimal(s))

(***************************************************************************)
(* The heap: Python lists and dicts, by identity.                          *)
(***************************************************************************)
Ids == 1..MaxObj
Root == 1

EmptyMap == [k \in {} |-> None]
Free == [kind |-> "free", m |-> EmptyMap, s |-> <<>>]
Dict(m) == [kind |-> "dict", m |-> m, s |-> <<>>]
List(s) == [kind |-> "list", m |-> EmptyMap, s |-> s]

isinstance(h, x, kind) == x.t = "ref" /\ h[x.v].kind = kind

\* "dict", "list" or, for an int, "int"
h_kind(h, x) == IF x.t = "ref" THEN h[x.v].kind ELSE "int"

\* Python's index rule for a list of length n: a negative index counts from
\* the end; IndexError outside -n..n-1.  Returns the 1-based position.
index(i, n) ==
    IF 0 <= i /\ i < n THEN Return(i + 1)
    ELSE IF i < 0 /\ 0 <= i + n THEN Return(i + n + 1)
    ELSE Raise("IndexError")

\* A step that needs the outcome r of an earlier one: an exception in r
\* goes on up unchanged
Elem(s, pos) == IF pos.ok THEN Return(s[pos.val]) ELSE pos

\* current[idx] for a list, current[part] for a dict
getitem(h, current, k) ==
    IF h[current.v].kind = "list"
    THEN Elem(h[current.v].s, index(k, Len(h[current.v].s)))
    ELSE IF k \in DOMAIN h[current.v].m
         THEN Return(h[current.v].m[k])
         ELSE Raise("KeyError")

\* current = current[idx], idx being the outcome of int(part)
AtIndex(h, current, idx) ==
    IF idx.ok THEN getitem(h, current, idx.val) ELSE idx

\* The loop body of get_value (dash) and of set_value and delete_value (not
\* dash): one step from current through part.  Only get_value reads '-'
\* as len(current).
descend(h, current, part, dash) ==
    IF isinstance(h, current, "list")
    THEN AtIndex(h, current,
                 IF dash /\ part = <<"-">>
                 THEN Return(Len(h[current.v].s))
                 ELSE int(part))
    ELSE IF isinstance(h, current, "dict")
         THEN getitem(h, current, part)
         ELSE Raise("ValueError: Cannot navigate")

\* for part in parts: current = ...
RECURSIVE walk(_, _, _, _)
RECURSIVE WalkOn(_, _, _, _)
walk(h, current, parts, dash) ==
    IF parts = <<>> THEN Return(current)
    ELSE WalkOn(h, descend(h, current, Head(parts), dash), Tail(parts), dash)

WalkOn(h, r, parts, dash) == IF r.ok THEN walk(h, r.val, parts, dash) ELSE r

\* get_value(obj, path_parts): the value found, or the exception raised
get_value(h, obj, path_parts) == walk(h, obj, path_parts, TRUE)

\* path_parts[:-1] and path_parts[-1]
Front(parts) == SubSeq(parts, 1, Len(parts) - 1)
Last(parts) == parts[Len(parts)]

\* current[idx] = value
SetAt(h, id, pos, value) ==
    IF pos.ok
    THEN Return([h EXCEPT ![id].s = [h[id].s EXCEPT ![pos.val] = value]])
    ELSE pos

\* The list branch of set_value: int(last_part) is evaluated only when
\* last_part is not '-'
SetInList(h, id, last_part, value) ==
    IF last_part = <<"-">>
    THEN Return([h EXCEPT ![id].s = Append(h[id].s, value)])
    ELSE IF int(last_part).ok
         THEN SetAt(h, id, index(int(last_part).val, Len(h[id].s)), value)
         ELSE int(last_part)

\* A dict assignment that takes effect only on a key the dict has already
SetInDictExisting(h, id, last_part, value) ==
    Return([h EXCEPT ![id].m =
               [k \in DOMAIN h[id].m |->
                   IF k = last_part THEN value ELSE h[id].m[k]]])

\* current[last_part] = value for a dict
SetInDict(h, id, last_part, value) ==
    Return([h EXCEPT ![id].m =
               [k \in DOMAIN h[id].m \cup {last_part} |->
                   IF k = last_part THEN value ELSE h[id].m[k]]])

\* set_value after its loop: p is the outcome of the walk to the parent
SetLast(h, p, last_part, value) ==
    IF ~p.ok THEN p
    ELSE IF isinstance(h, p.val, "list")
         THEN SetInList(h, p.val.v, last_part, value)
    ELSE IF isinstance(h, p.val, "dict")
         THEN SetInDict(h, p.val.v, last_part, value)
    ELSE Raise("ValueError: Cannot set value")

\* set_value(obj, path_parts, value): the heap after the call, or the
\* exception raised (the heap is then untouched)
set_value(h, obj, path_parts, value) ==
    IF path_parts = <<>> THEN Raise("ValueError: Empty path")
    ELSE SetLast(h, walk(h, obj, Front(path_parts), FALSE),
                 Last(path_parts), value)

\* del current[idx] for a list
DelAt(h, id, pos) ==
    IF pos.ok
    THEN Return([h EXCEPT ![id].s = SubSeq(h[id].s, 1, pos.val - 1)
                                     \o SubSeq(h[id].s, pos.val + 1, Len(h[id].s))])
    ELSE pos

\* The list branch of delete_value: int(last_part) always
DelInList(h, id, idx) ==
    IF idx.ok THEN DelAt(h, id, index(idx.val, Len(h[id].s))) ELSE idx

\* A dict deletion that looks the key up and leaves it in place
DelInDictKeeps(h, id, last_part) ==
    IF last_part \in DOMAIN h[id].m THEN Return(h) ELSE Raise("KeyError")

\* del current[last_part] for a dict
DelInDict(h, id, last_part) ==
    IF last_part \in DOMAIN h[id].m
    THEN Return([h EXCEPT ![id].m =
                    [k \in DOMAIN h[id].m \ {last_part} |-> h[id].m[k]]])
    ELSE Raise("KeyError")

\* delete_value after its loop
DelLast(h, p, last_part) ==
    IF ~p.ok THEN p
    ELSE IF isinstance(h, p.val, "list")
         THEN DelInList(h, p.val.v, int(last_part))
    ELSE IF isinstance(h, p.val, "dict")
         THEN DelInDict(h, p.val.v, last_part)
    ELSE Raise("ValueError: Cannot delete")

\* delete_value(obj, path_parts): the heap after the call, or the exception
delete_value(h, obj, path_parts) ==
    IF path_parts = <<>> THEN Raise("ValueError: Empty path")
    ELSE DelLast(h, walk(h, obj, Front(path_parts), FALSE), Last(path_parts))

(***************************************************************************)
(* Values as wholes.                                                       *)
(***************************************************************************)
\* Python's ==, as list.__eq__ and dict.__eq__ compute it: the same object
\* is equal to itself, ints by number, lists element by element, dicts key
\* by key.  The right operand is always a freshly loaded JSON value, which
\* is finite, so the comparison ends.
RECURSIVE py_eq(_, _, _)
py_eq(h, a, b) ==
    IF a = b THEN TRUE
    ELSE IF a.t = "ref" /\ b.t = "ref" /\ h[a.v].kind = h[b.v].kind
    THEN IF h[a.v].kind = "list"
         THEN /\ Len(h[a.v].s) = Len(h[b.v].s)
              /\ \A k \in 1..Len(h[a.v].s) : py_eq(h, h[a.v].s[k], h[b.v].s[k])
         ELSE /\ DOMAIN h[a.v].m = DOMAIN h[b.v].m
              /\ \A k \in DOMAIN h[a.v].m : py_eq(h, h[a.v].m[k], h[b.v].m[k])
    ELSE FALSE

\* The objects a container holds directly
Held(o) == {o.s[k].v : k \in {j \in 1..Len(o.s) : o.s[j].t = "ref"}}
               \cup {o.m[k].v : k \in {j \in DOMAIN o.m : o.m[j].t = "ref"}}

HeldBy(h, S) == UNION {Held(h[id]) : id \in S}

RECURSIVE Reach(_, _)
Reach(h, S) == IF HeldBy(h, S) \subseteq S THEN S ELSE Reach(h, S \cup HeldBy(h, S))

\* Reference counting: an object nothing refers to any more is gone.
Collect(h) == [id \in Ids |-> IF id \in Reach(h, {Root}) THEN h[id] ELSE Free]

\* json.load of a patch's 'value': an int, or a new empty dict or list.
Missing == [t |-> "missing", v |-> 0]
JInt(n) == [t |-> "int", v |-> n]
JDict == [t |-> "dict", v |-> 0]
JList == [t |-> "list", v |-> 0]

FreeIds(h) == {id \in Ids : h[id].kind = "free"}
NewId(h) == CHOOSE id \in FreeIds(h) : \A o \in FreeIds(h) : id <= o

\* The heap holding the loaded value, and the value
LoadHeap(h, lit) ==
    IF lit.t = "int" THEN h
    ELSE [h EXCEPT ![NewId(h)] =
             IF lit.t = "dict" THEN Dict(EmptyMap) ELSE List(<<>>)]
LoadVal(h, lit) == IF lit.t = "int" THEN PyInt(lit.v) ELSE Ref(NewId(h))

(***************************************************************************)
(* apply_patch: the body of the try statement for one patch.               *)
(***************************************************************************)
\* How one patch ended, and the heap it left:
\*   "ok"      the branch ran to its print
\*   "unknown" the else branch: a warning, nothing raised
\*   "error"   an exception reached the except clause
Done(h) == [status |-> "ok", err |-> "", heap |-> Collect(h)]
Unknown(h) == [status |-> "unknown", err |-> "", heap |-> Collect(h)]
Failed(e, h) == [status |-> "error", err |-> e, heap |-> Collect(h)]

\* The end of a branch whose last call gave r: r's heap, or r's exception
\* with the heap h as it was when that call began
Ended(r, h) == IF r.ok THEN Done(r.val) ELSE Failed(r.err, h)

\* op == 'add' and op == 'replace': value = patch['value']; set_value(...)
op_set(h, patch, path_parts) ==
    IF patch.value.t = "missing" THEN Failed("KeyError", h)
    ELSE Ended(set_value(LoadHeap(h, patch.value), Ref(Root), path_parts,
                         LoadVal(h, patch.value)), h)

\* op == 'remove'
op_remove(h, patch, path_parts) ==
    Ended(delete_value(h, Ref(Root), path_parts), h)

\* if current != value: raise ValueError("Test failed ...")
Compared(h, hv, current, value) ==
    IF ~current.ok THEN Failed(current.err, h)
    ELSE IF ~py_eq(hv, current.val, value)
         THEN Failed("ValueError: Test failed", h)
         ELSE Done(h)

\* op == 'test'
op_test(h, patch, path_parts) ==
    IF patch.value.t = "missing" THEN Failed("KeyError", h)
    ELSE Compared(h, LoadHeap(h, patch.value),
                  get_value(LoadHeap(h, patch.value), Ref(Root), path_parts),
                  LoadVal(h, patch.value))

\* copy after value = get_value(data, from_parts): the value read is
\* stored as it is, the same object
CopyValue(h, value, path_parts) ==
    IF ~value.ok THEN Failed(value.err, h)
    ELSE Ended(set_value(h, Ref(Root), path_parts, value.val), h)

CopyFrom(h, from_parts, path_parts) ==
    IF ~from_parts.ok THEN Failed(from_parts.err, h)
    ELSE CopyValue(h, get_value(h, Ref(Root), from_parts.val), path_parts)

\* op == 'copy'
op_copy(h, patch, path_parts) ==
    IF patch.from.t = "missing" THEN Failed("KeyError", h)
    ELSE CopyFrom(h, parse_path(patch.from), path_parts)

\* move after delete_value(data, from_parts) gave d: a failing set_value
\* leaves the heap as the delete left it
MoveSet(h, d, value, path_parts) ==
    IF ~d.ok THEN Failed(d.err, h)
    ELSE Ended(set_value(d.val, Ref(Root), path_parts, value), d.val)

MoveValue(h, value, from_parts, path_parts) ==
    IF ~value.ok THEN Failed(value.err, h)
    ELSE MoveSet(h, delete_value(h, Ref(Root), from_parts), value.val, path_parts)

MoveFrom(h, from_parts, path_parts) ==
    IF ~from_parts.ok THEN Failed(from_parts.err, h)
    ELSE MoveValue(h, get_value(h, Ref(Root), from_parts.val),
                   from_parts.val, path_parts)

\* A move that does not delete the source
op_move_keeps_source(h, patch, path_parts) == op_copy(h, patch, path_parts)

\* op == 'move': read, delete the source, then write
op_move(h, patch, path_parts) ==
    IF patch.from.t = "missing" THEN Failed("KeyError", h)
    ELSE MoveFrom(h, parse_path(patch.from), path_parts)

\* The branches, path_parts being the outcome of parse_path(path)
Branch(h, patch, path_parts) ==
    IF ~path_parts.ok THEN Failed(path_parts.err, h)
    ELSE CASE patch.op = "add" -> op_set(h, patch, path_parts.val)
           [] patch.op = "remove" -> op_remove(h, patch, path_parts.val)
           [] patch.op = "replace" -> op_set(h, patch, path_parts.val)
           [] patch.op = "test" -> op_test(h, patch, path_parts.val)
           [] patch.op = "copy" -> op_copy(h, patch, path_parts.val)
           [] patch.op = "move" -> op_move(h, patch, path_parts.val)
           [] OTHER -> Unknown(h)

\* The try body: parse_path(path) first, whatever the op, then the branch
try_body(h, patch) == Branch(h, patch, parse_path(patch.path))

(***************************************************************************)
(* Inputs: the database file and the corrections file.                     *)
(***************************************************************************)
\* {"a": [1, 2], "b": {"a": 1}}
Doc1 == [id \in Ids |->
            CASE id = 1 -> Dict([k \in {<<"a">>, <<"b">>} |->
                                   IF k = <<"a">> THEN Ref(2) ELSE Ref(3)])
              [] id = 2 -> List(<<PyInt(1), PyInt(2)>>)
              [] id = 3 -> Dict([k \in {<<"a">>} |-> PyInt(1)])
              [] OTHER -> Free]

\* {"a": [{"a": 2}], "b": 1}
Doc2 == [id \in Ids |->
            CASE id = 1 -> Dict([k \in {<<"a">>, <<"b">>} |->
                                   IF k = <<"a">> THEN Ref(2) ELSE PyInt(1)])
              [] id = 2 -> List(<<Ref(3)>>)
              [] id = 3 -> Dict([k \in {<<"a">>} |-> PyInt(2)])
              [] OTHER -> Free]

Docs == {Doc1, Doc2}

\* JSON Pointer strings of the corrections
ValidPaths ==
    { Str(<<"/", "a">>), Str(<<"/", "b">>),
      Str(<<"/", "a", "/", "0">>), Str(<<"/", "a", "/", "1">>),
      Str(<<"/", "a", "/", "-">>), Str(<<"/", "a", "/", "-", "1">>),
      Str(<<"/", "b", "/", "a">>), Str(<<"/", "b", "/", "b">>),
      Str(<<"/", "a", "/", "0", "/", "a">>),
      Str(<<"/", "b", "/", "~", "0", "1">>) }
EmptyPath == Str(<<>>)
BadPaths == { EmptyPath, Str(<<"a">>), None }

MissingKey == [t |-> "missing", v |-> <<>>]

FromPaths ==
    { Str(<<"/", "a">>), Str(<<"/", "b">>), Str(<<"/", "a", "/", "0">>),
      Str(<<"/", "b", "/", "a">>), MissingKey }
ToPaths ==
    { Str(<<"/", "a">>), Str(<<"/", "b">>), Str(<<"/", "a", "/", "0">>),
      Str(<<"/", "a", "/", "-">>), Str(<<"/", "b", "/", "a">>) }

Patch(op, path, value, from) ==
    [op |-> op, path |-> path, value |-> value, from |-> from]

Patches ==
    {Patch("add", p, JInt(1), MissingKey) : p \in ValidPaths}
    \cup {Patch("add", p, JDict, MissingKey) :
              p \in {Str(<<"/", "b">>), Str(<<"/", "b", "/", "b">>),
                     Str(<<"/", "a", "/", "-">>),
                     Str(<<"/", "a", "/", "-", "1">>)}}
    \cup {Patch("add", EmptyPath, JInt(1), MissingKey),
          Patch("add", Str(<<"/", "b">>), Missing, MissingKey),
          Patch("add", Str(<<"/", "a", "/", "-">>), JList, MissingKey)}
    \cup {Patch("replace", p, JInt(2), MissingKey) :
              p \in {Str(<<"/", "a">>), Str(<<"/", "a", "/", "0">>),
                     Str(<<"/", "a", "/", "-", "1">>),
                     Str(<<"/", "b", "/", "a">>)}}
    \cup {Patch("remove", p, Missing, MissingKey) : p \in ValidPaths \cup {EmptyPath}}
    \cup {Patch("test", p, JInt(1), MissingKey) :
              p \in {EmptyPath, Str(<<"/", "b">>), Str(<<"/", "a", "/", "0">>),
                     Str(<<"/", "a", "/", "1">>), Str(<<"/", "a", "/", "-">>),
                     Str(<<"/", "a", "/", "-", "1">>),
                     Str(<<"/", "b", "/", "a">>)}}
    \cup {Patch("test", EmptyPath, JDict, MissingKey),
          Patch("test", Str(<<"/", "b">>), JDict, MissingKey)}
    \cup {Patch(op, p, Missing, f) :
              op \in {"copy", "move"}, p \in ToPaths, f \in FromPaths}
    \cup {Patch("frobnicate", p, Missing, MissingKey) :
              p \in BadPaths \cup {Str(<<"/", "a">>), Str(<<"/", "x">>)}}

(***************************************************************************)
(* The state of the two scripts.                                           *)
(***************************************************************************)
VARIABLES
    data,       \* the heap of the database; data[Root] is the dict loaded
    n,          \* len(patches)
    i,          \* patches taken from the list so far
    pc,         \* "loop": in apply_patch; "raised": left by an exception;
                \* "saved": the output file is written and closed
    output,     \* the output file: "none", "partial" or "complete"
    last,       \* the patch taken last, how it ended and the answer given
    lastData,   \* the heap when that patch was taken
    \* merge_lessons.py
    files,                  \* the five lesson files of the working directory
    file_index,             \* place in lesson_files of the file taken next
    merged_data,            \* None, or the base document
    total_lessons_loaded,
    mpc,                    \* "loop", "exit" (sys.exit(1)) or "done"
    output_file             \* the N of the output file's name and the
                            \* document dumped into it

patchVars == <<data, n, i, pc, output, last, lastData>>
mergeVars == <<files, file_index, merged_data, total_lessons_loaded, mpc, output_file>>
vars == <<patchVars, mergeVars>>

(***************************************************************************)
(* merge_lessons.py                                                        *)
(***************************************************************************)
NumFiles == 5        \* len(lesson_files)
MaxLessons == 2      \* most lessons in one file

\* The lessons of file k when it holds c of them: lesson records, told
\* apart by file and position
LessonsOf(k, c) == [j \in 1..c |-> 10 * k + j]

\* A file of the working directory: absent; present but json.load or
\* data['lessons'] raises; or a document with lessons and maybe metadata
Absent == [exists |-> FALSE, loads |-> FALSE, lessons |-> <<>>,
           metadata |-> FALSE]
Broken == [exists |-> TRUE, loads |-> FALSE, lessons |-> <<>>,
           metadata |-> FALSE]
Document(lessons, metadata) ==
    [exists |-> TRUE, loads |-> TRUE, lessons |-> lessons, metadata |-> metadata]

FilesAt(k) ==
    {Absent, Broken}
        \cup {Document(LessonsOf(k, c), m) : c \in 0..MaxLessons, m \in BOOLEAN}

\* merged_data: None, or the base document: its lessons, and its metadata
\* when it has the key (total_lessons and the N of description)
NoData == [none |-> TRUE, lessons |-> <<>>, metadata |-> FALSE,
           total_lessons |-> 0, description |-> 0]
Base(file) == [none |-> FALSE, lessons |-> file.lessons,
               metadata |-> file.metadata,
               total_lessons |-> Len(file.lessons),
               description |-> Len(file.lessons)]

NoFile == [written |-> FALSE, N |-> 0, doc |-> NoData]

MergeIdle ==
    /\ files = [k \in 1..NumFiles |-> Absent]
    /\ file_index = NumFiles + 1
    /\ merged_data = NoData
    /\ total_lessons_loaded = 0
    /\ mpc = "exit"
    /\ output_file = NoFile

PatchIdle ==
    /\ data = [id \in Ids |-> IF id = Root THEN Dict(EmptyMap) ELSE Free]
    /\ n = 0
    /\ i = 0
    /\ pc = "saved"
    /\ output = "none"
    /\ last = [patch |-> [op |-> "", path |-> None,
                           value |-> [t |-> "missing", v |-> 0],
                           from |-> [t |-> "missing", v |-> <<>>]],
                status |-> "", err |-> "", response |-> "", existed |-> FALSE,
                after_add |-> FALSE]
    /\ lastData = data

MergeInit ==
    /\ PatchIdle
    /\ files \in {<<a, b, c, d, e>> : a \in FilesAt(1), b \in FilesAt(2),
                       c \in FilesAt(3), d \in FilesAt(4), e \in FilesAt(5)}
    /\ file_index = 1
    /\ merged_data = NoData
    /\ total_lessons_loaded = 0
    /\ mpc = "loop"
    /\ output_file = NoFile

\* if not os.path.exists(filename): continue
SkipMissing ==
    /\ mpc = "loop" /\ file_index <= NumFiles
    /\ ~files[file_index].exists
    /\ file_index' = file_index + 1
    /\ UNCHANGED <<files, merged_data, total_lessons_loaded, mpc, output_file,
                   patchVars>>

\* except Exception: continue
LoadFails ==
    /\ mpc = "loop" /\ file_index <= NumFiles
    /\ files[file_index].exists /\ ~files[file_index].loads
    /\ file_index' = file_index + 1
    /\ UNCHANGED <<files, merged_data, total_lessons_loaded, mpc, output_file,
                   patchVars>>

\* The first file that loads is the base
LoadBase ==
    /\ mpc = "loop" /\ file_index <= NumFiles
    /\ files[file_index].exists /\ files[file_index].loads
    /\ merged_data.none
    /\ merged_data' = Base(files[file_index])
    /\ total_lessons_loaded' = Len(files[file_index].lessons)
    /\ file_index' = file_index + 1
    /\ UNCHANGED <<files, mpc, output_file, patchVars>>

\* A counter that is overwritten by the file's count
Recounted(total, lessons_count) == lessons_count

\* total_lessons_loaded += lessons_count
Counted(total, lessons_count) == total + lessons_count

\* merged_data['lessons'].extend(data['lessons'])
LoadMore ==
    /\ mpc = "loop" /\ file_index <= NumFiles
    /\ files[file_index].exists /\ files[file_index].loads
    /\ ~merged_data.none
    /\ merged_data' = [merged_data EXCEPT !.lessons = @ \o files[file_index].lessons]
    /\ total_lessons_loaded' =
           Counted(total_lessons_loaded, Len(files[file_index].lessons))
    /\ file_index' = file_index + 1
    /\ UNCHANGED <<files, mpc, output_file, patchVars>>

\* if merged_data is None: sys.exit(1)
NoneLoaded ==
    /\ mpc = "loop" /\ file_index = NumFiles + 1
    /\ merged_data.none
    /\ mpc' = "exit"
    /\ UNCHANGED <<files, file_index, merged_data, total_lessons_loaded, output_file,
                   patchVars>>

\* if 'metadata' in merged_data: ...
UpdateMetadata(d, total) ==
    IF d.metadata
    THEN [d EXCEPT !.total_lessons = total, !.description = total]
    ELSE d

\* Update the metadata and dump into lessons_1_to_<N>_bilingual_complete.json
Finish ==
    /\ mpc = "loop" /\ file_index = NumFiles + 1
    /\ ~merged_data.none
    /\ merged_data' = UpdateMetadata(merged_data, total_lessons_loaded)
    /\ output_file' = [written |-> TRUE, N |-> total_lessons_loaded,
                       doc |-> UpdateMetadata(merged_data, total_lessons_loaded)]
    /\ mpc' = "done"
    /\ UNCHANGED <<files, file_index, total_lessons_loaded, patchVars>>

MergeNext ==
    \/ SkipMissing
    \/ LoadFails
    \/ LoadBase
    \/ LoadMore
    \/ NoneLoaded
    \/ Finish

(***************************************************************************)
(* The run of main from the call of apply_patch on.                        *)
(***************************************************************************)
NoPatch == Patch("", None, Missing, MissingKey)
\* Whether path led to a value when the patch was taken
Resolves(h, path_parts) ==
    path_parts.ok /\ get_value(h, Ref(Root), path_parts.val).ok

\* What is kept of one turn of the loop: the patch, how the try body ended,
\* the answer given, whether the path led to a value when the patch was
\* taken, and whether the turn before was an 'add' that created this path
Entry(patch, r, response, existed, after_add) ==
    [patch |-> patch, status |-> r.status, err |-> r.err, response |-> response,
     existed |-> existed, after_add |-> after_add]

\* The turn e was an 'add' that ended well at a path that led nowhere before
Created(e, path) ==
    e.patch.op = "add" /\ e.status = "ok" /\ ~e.existed /\ e.patch.path = path

NoEntry == [patch |-> NoPatch, status |-> "", err |-> "", response |-> "",
            existed |-> FALSE, after_add |-> FALSE]

Init ==
    /\ MergeIdle
    /\ data \in Docs
    /\ n \in 0..MaxPatches
    /\ i = 0
    /\ pc = "loop"
    /\ output = "none"
    /\ last = NoEntry
    /\ lastData = data

\* The bounds: the patch's value fits in the heap and no list outgrows MaxLen
Fits(h, patch) == patch.value.t \in {"dict", "list"} => FreeIds(h) # {}
Bounded(h) == \A id \in Ids : Len(h[id].s) <= MaxLen

\* The end of one turn of the for loop, r being how the try body ended
\* and response the answer to the except clause's question ("" when it
\* was not asked)
Turn(patch, r, response) ==
    /\ Bounded(r.heap)
    /\ data' = r.heap
    /\ last' = Entry(patch, r, response, Resolves(data, parse_path(patch.path)),
                     Created(last, patch.path))
    /\ lastData' = data
    /\ i' = i + 1
    /\ pc' = IF response \in {"", "y"} THEN "loop" ELSE "raised"
    /\ UNCHANGED <<n, output, mergeVars>>

\* The try body raised nothing: a branch ran, or the op was unknown
Applied(patch, r) == r.status # "error" /\ Turn(patch, r, "")

\* The try body raised: the except clause asks, and goes on
Continued(patch, r) == r.status = "error" /\ Turn(patch, r, "y")

\* The try body raised: the except clause asks, and raises again
Raised(patch, r) == r.status = "error" /\ Turn(patch, r, "n")

Ends(patch, r) == Applied(patch, r) \/ Continued(patch, r) \/ Raised(patch, r)

\* One turn of the for loop
Step(patch) ==
    /\ pc = "loop" /\ i < n
    /\ Fits(data, patch)
    /\ Ends(patch, try_body(data, patch))

\* json.dump follows every reference; a container that holds itself makes
\* it raise after the file was opened for writing
Circular(h) == \E id \in Ids : h[id].kind # "free" /\ id \in Reach(h, Held(h[id]))

\* main after apply_patch returned: open the output file and dump
Save ==
    /\ pc = "loop" /\ i = n
    /\ output' = IF Circular(data) THEN "partial" ELSE "complete"
    /\ pc' = IF Circular(data) THEN "raised" ELSE "saved"
    /\ UNCHANGED <<data, n, i, last, lastData, mergeVars>>

Next ==
    \/ \E patch \in Patches : Step(patch)
    \/ Save

Spec == Init /\ [][Next]_vars

SpecMerge == MergeInit /\ [][MergeNext]_vars

(***************************************************************************)
(* What the claims speak of.                                               *)
(***************************************************************************)
\* The JSON value a heap value stands for, followed Depth references deep
\* (a heap of MaxObj containers that holds no container twice on one route
\* is never deeper)
Depth == MaxObj + 1
NoKids == [k \in {} |-> 0]

RECURSIVE Unfold(_, _, _, _)
Unfold(h, x, d, ints) ==
    IF x.t # "ref"
    THEN [t |-> "int", v |-> IF ints THEN x.v ELSE 0, m |-> NoKids, s |-> <<>>]
    ELSE IF d = 0
    THEN [t |-> "deeper", v |-> 0, m |-> NoKids, s |-> <<>>]
    ELSE [t |-> h[x.v].kind, v |-> 0,
          m |-> [k \in DOMAIN h[x.v].m |-> Unfold(h, h[x.v].m[k], d - 1, ints)],
          s |-> [k \in 1..Len(h[x.v].s) |-> Unfold(h, h[x.v].s[k], d - 1, ints)]]

\* The document as a JSON value
Value(h) == Unfold(h, Ref(Root), Depth, TRUE)
\* Its shape: the keys of every mapping and the length of every sequence
Shape(h) == Unfold(h, Ref(Root), Depth, FALSE)
\* What get returns, as a JSON value, or that it failed
Got(h, r) == IF r.ok THEN Unfold(h, r.val, Depth, TRUE)
             ELSE [t |-> "raised", v |-> 0, m |-> NoKids, s |-> <<>>]

\* x is the loaded JSON value lit
IsValue(h, x, lit) ==
    IF lit.t = "int" THEN x = PyInt(lit.v)
    ELSE x.t = "ref" /\ h[x.v] = (IF lit.t = "dict" THEN Dict(EmptyMap)
                                  ELSE List(<<>>))

\* A place of the heap: a key of a dict or a position of a list
KeyPlace(id, key) == [id |-> id, pos |-> 0, key |-> key]
PosPlace(id, pos) == [id |-> id, pos |-> pos, key |-> <<>>]

\* The place one step of a walk reads (the step being one that succeeds)
PlaceRead(h, current, part, dash) ==
    IF h[current.v].kind = "dict" THEN KeyPlace(current.v, part)
    ELSE PosPlace(current.v,
                  IF dash /\ part = <<"-">> THEN Len(h[current.v].s) + 1
                  ELSE index(int(part).val, Len(h[current.v].s)).val)

\* The places a walk reads, up to the step that fails
RECURSIVE Places(_, _, _, _)
Places(h, current, parts, dash) ==
    IF parts = <<>> \/ ~descend(h, current, Head(parts), dash).ok THEN {}
    ELSE {PlaceRead(h, current, Head(parts), dash)}
             \cup Places(h, descend(h, current, Head(parts), dash).val,
                         Tail(parts), dash)

\* The place a set_value that succeeds writes
PlaceWritten(h, path_parts) ==
    LET p == walk(h, Ref(Root), Front(path_parts), FALSE).val
        last_part == Last(path_parts)
    IN  IF h[p.v].kind = "dict" THEN KeyPlace(p.v, last_part)
        ELSE PosPlace(p.v, IF last_part = <<"-">> THEN Len(h[p.v].s) + 1
                           ELSE index(int(last_part).val, Len(h[p.v].s)).val)

\* The tokens of the last patch's path and from
PathParts == parse_path(last.patch.path).val
FromParts == parse_path(last.patch.from).val
Took(ops) == last.patch.op \in ops /\ last.status = "ok"

\* p is a prefix of q
Prefix(p, q) == Len(p) <= Len(q) /\ SubSeq(q, 1, Len(p)) = p
Apart(p, q) == ~Prefix(p, q) /\ ~Prefix(q, p)

KnownOps == {"add", "remove", "replace", "test", "copy", "move"}

(***************************************************************************)
(* C1.  After a copy of a container that succeeds, a later patch that      *)
(* changes something at or below path leaves get(document, from) as it     *)
(* was, and one that changes something at or below from leaves             *)
(* get(document, path) as it was (from and path being places apart).       *)
(***************************************************************************)
CopiedContainer ==
    /\ Took({"copy"})
    /\ Apart(FromParts, PathParts)
    /\ get_value(data, Ref(Root), FromParts).ok
    /\ get_value(data, Ref(Root), FromParts).val.t = "ref"

C1_Next(here, there) ==
    /\ last'.patch.op \in {"add", "replace", "remove"}
    /\ last'.status = "ok"
    /\ Prefix(here, parse_path(last'.patch.path).val)
    => Got(data', get_value(data', Ref(Root), there))
           = Got(data, get_value(data, Ref(Root), there))

\* C1: after a copy of a container, changing one of from and path leaves what
\* get returns at the other unchanged
C1_CopyIsIndependent ==
    [][CopiedContainer =>
          C1_Next(PathParts, FromParts) /\ C1_Next(FromParts, PathParts)]_vars

(***************************************************************************)
(* C2.  A patch whose op is none of the six raises nothing, is not asked   *)
(* about, leaves the document unchanged and lets the loop go on, whatever  *)
(* its path.                                                               *)
(***************************************************************************)
C2_UnknownOpNeverRaises ==
    last.status # "" /\ last.patch.op \notin KnownOps =>
        /\ last.status = "unknown"
        /\ last.response = ""
        /\ Value(data) = Value(lastData)
        /\ pc = "loop"

(***************************************************************************)
(* C3.  After a move that succeeds, get(document, from) fails and          *)
(* get(document, path) returns the value that was at from.                 *)
(***************************************************************************)
Moved == get_value(lastData, Ref(Root), FromParts).val

Detached == delete_value(lastData, Ref(Root), FromParts).val

FromIsKey ==
    h_kind(lastData, walk(lastData, Ref(Root), Front(FromParts), FALSE).val)
        = "dict"

C3_PathHoldsMoved ==
    /\ Last(PathParts) # <<"-">>
    /\ PlaceWritten(Detached, PathParts)
           \notin Places(Detached, Ref(Root), Front(PathParts), FALSE)
    => get_value(data, Ref(Root), PathParts) = Return(Moved)

C3_KeyGone ==
    /\ FromIsKey
    /\ PlaceWritten(Detached, PathParts)
           \notin Places(lastData, Ref(Root), FromParts, TRUE)
    => ~get_value(data, Ref(Root), FromParts).ok

GetsBack ==
    /\ get_value(data, Ref(Root), PathParts).ok
    /\ IsValue(data, get_value(data, Ref(Root), PathParts).val, last.patch.value)

\* C4 as stated: after a set that succeeds, get at the same pointer returns
\* the value set, '-' included
C4_SetGetRoundTrip == Took({"add", "replace"}) => GetsBack

\* C4 as amended: after a set that succeeds at a pointer whose last token is
\* not '-', get at the same pointer returns the value set (the place written
\* not being one the walk to the parent reads, as it never is in a document
\* json.load gave)
C4_SetGet ==
    /\ Took({"add", "replace"})
    /\ Last(PathParts) # <<"-">>
    /\ PlaceWritten(lastData, PathParts)
           \notin Places(lastData, Ref(Root), Front(PathParts), FALSE)
    => GetsBack

C4_Witness ==
    /\ Took({"add", "replace"})
    /\ Len(PathParts) = 2
    /\ Last(PathParts) = <<"-", "1">>
    /\ last.patch.value.t = "dict"
    /\ GetsBack

(***************************************************************************)
(* C5.  An add and then a remove at the same path, both succeeding, leave  *)
(* the document with the shape it had before the add.                      *)
(***************************************************************************)
AddThenRemove ==
    /\ Took({"add"})
    /\ last'.patch.op = "remove" /\ last'.status = "ok"
    /\ last'.patch.path = last.patch.path

\* C5 as stated: add then remove at the same path, both succeeding, restore
\* the shape the document had before the add
C5_AddRemoveKeepsShape ==
    [][AddThenRemove => Shape(data') = Shape(lastData)]_vars

\* C5 as amended: add then remove at the same path, both succeeding, restore
\* the shape the document had before the add when the path led to no value
\* before the add
C5_AddRemove ==
    [][AddThenRemove /\ ~last.existed => Shape(data') = Shape(lastData)]_vars

C5_Witness ==
    /\ Took({"remove"})
    /\ last.after_add
    /\ Len(PathParts) = 2

(***************************************************************************)
(* C6.  The empty pointer parses to no tokens, so a test at "" compares   *)
(* its value with the whole document: it passes when they are equal and    *)
(* fails as a failed test, not as a bad pointer, when they differ.         *)
(***************************************************************************)
TestedRoot ==
    /\ last.patch.op = "test"
    /\ last.patch.path = EmptyPath
    /\ last.patch.value.t # "missing"

\* C6: a test at "" parses to no tokens and compares with the whole document
C6_EmptyPointerIsRoot ==
    TestedRoot =>
        /\ parse_path(last.patch.path) = Return(<<>>)
        /\ IF py_eq(LoadHeap(lastData, last.patch.value), Ref(Root),
                    LoadVal(lastData, last.patch.value))
           THEN last.status = "ok"
           ELSE last.status = "error" /\ last.err = "ValueError: Test failed"

(***************************************************************************)
(* C7.  Patches are taken in list order, each once; the output file is     *)
(* written only after all were taken; and when the operator declines to    *)
(* go on, the document holds exactly the effects of the earlier patches    *)
(* and no output file is written.                                          *)
(***************************************************************************)
Declined == pc = "raised" /\ last.response = "n"

\* C7: in-order processing, output only after the last patch, and a declined
\* failure leaves exactly the effects of the earlier patches and no output
C7_InOrderThenSave ==
    /\ i <= n
    /\ output # "none" => i = n
    /\ Declined => output = "none" /\ Value(data) = Value(lastData)

(***************************************************************************)
(* C9.  A patch that fails, the operator going on, leaves the document as  *)
(* it was when the patch was taken.                                        *)
(***************************************************************************)
C9_FailedPatchHasNoEffect ==
    last.status = "error" /\ last.response = "y" =>
        Value(data) = Value(lastData)

(***************************************************************************)
(* C10.  In get and in remove, an integer token i applied to a sequence    *)
(* of length n with i < 0 or i >= n fails as an index out of range, and    *)
(* remove then deletes nothing.                                            *)
(***************************************************************************)
\* Some token of the walk is applied to a list and is an integer outside
\* 0..n-1
RECURSIVE OutOfRange(_, _, _)
OutOfRange(h, current, parts) ==
    IF parts = <<>> \/ current.t # "ref" THEN FALSE
    ELSE IF h[current.v].kind = "list" /\ int(Head(parts)).ok
              /\ (int(Head(parts)).val < 0
                     \/ int(Head(parts)).val >= Len(h[current.v].s))
    THEN TRUE
    ELSE descend(h, current, Head(parts), TRUE).ok
             /\ OutOfRange(h, descend(h, current, Head(parts), TRUE).val,
                           Tail(parts))

\* C10: get (through test) and remove fail with IndexError on an index outside
\* 0..n-1, negative ones included, and change nothing
C10_IndexOutOfRange ==
    /\ last.patch.op \in {"test", "remove"}
    /\ last.patch.value.t # "missing" \/ last.patch.op = "remove"
    /\ parse_path(last.patch.path).ok
    /\ OutOfRange(lastData, Ref(Root), PathParts)
    => /\ last.status = "error"
       /\ last.err = "IndexError"
       /\ Value(data) = Value(lastData)

(***************************************************************************)
(* C8.  Merge: the lessons written are those of the files that loaded, in  *)
(* file order; their number is the N of the file name and, when the base   *)
(* has metadata, its total_lessons; and after every turn of the loop the   *)
(* counter is the length of the merged lessons.                            *)
(***************************************************************************)
RECURSIVE LessonsUpTo(_, _)
LessonsUpTo(fs, k) ==
    IF k = 0 THEN <<>>
    ELSE LessonsUpTo(fs, k - 1)
             \o (IF fs[k].exists /\ fs[k].loads THEN fs[k].lessons ELSE <<>>)

\* C8: the merged lessons are the concatenation in file order of the lessons
\* of the files that loaded, N and metadata.total_lessons are their number,
\* and the counter is the length of the merged lessons after every turn
C8_Merge ==
    /\ ~merged_data.none =>
          /\ merged_data.lessons = LessonsUpTo(files, file_index - 1)
          /\ total_lessons_loaded = Len(merged_data.lessons)
    /\ mpc = "done" =>
          /\ output_file.written
          /\ output_file.doc.lessons = LessonsUpTo(files, NumFiles)
          /\ output_file.N = Len(output_file.doc.lessons)
          /\ output_file.doc.metadata =>
                output_file.doc.total_lessons = Len(output_file.doc.lessons)
    /\ (\E k \in 1..NumFiles : files[k].exists /\ files[k].loads) =>
          mpc # "exit"

C8_Witness ==
    /\ mpc = "done"
    /\ output_file.doc.metadata
    /\ ~files[1].exists
    /\ files[2].exists /\ ~files[2].loads
    /\ output_file.N = 2 * MaxLessons
    /\ Len(files[3].lessons) < MaxLessons

====
